---------------------------- MODULE Spec2Model ----------------------------
(***************************************************************************)
(* A model of src/bot.py: a Telegram bot that keeps a per-user list of     *)
(* watched films in one JSON file and recommends films from TMDB.          *)
(*                                                                         *)
(* Two state machines are modelled.                                        *)
(*   SpecRL  the RateLimiter (src/bot.py:39-59): callers of acquire() and  *)
(*           a clock.                                                      *)
(*   Spec    the bot: the handlers of src/bot.py:93-640, the dispatch      *)
(*           order of main() (src/bot.py:648-664) and the conversation     *)
(*           handlers' tables (src/bot.py:471-484, 587-618).               *)
(*                                                                         *)
(* Handlers are coroutines.  A handler runs without interruption from one  *)
(* await to the next; where state read before an await is written after it *)
(* (RateLimiter.acquire around its sleep, get_genres around its fetch,     *)
(* add_save_film around its call of get_genres) the handler is split at    *)
(* the await and other handlers may run in between.                        *)
(***************************************************************************)
EXTENDS Integers, Sequences, FiniteSets, TLC

VARIABLES
    \* ---- RateLimiter (SpecRL)
    clock,        \* time.time(), in ticks of half a second
    requests,     \* RateLimiter.requests: the recorded timestamps, in order
    rl_pc,        \* per caller of acquire(): <<>> when not inside acquire,
                  \* <<t>> when suspended in asyncio.sleep until time t
    \* ---- the bot (Spec)
    store,        \* the file DATA_FILE: <<>> when absent, else <<text>>, the
                  \* JSON object that save_films wrote: a sequence of
                  \* members [key |-> user id, value |-> list of film records]
    genre_cache,  \* _genre_cache: <<>> for None, else <<mapping id -> name>>
    user_data,    \* context.user_data of each user (the session dictionary)
    conv,         \* per user, the state of add_conv, list_conv and
                  \* recommend_conv (END when the user has no conversation)
    inflight,     \* per user, <<>> or the handler suspended in get_genres
    last,         \* what the last update did: the handler that ran, what it
                  \* sent and what it returned
    updates       \* the number of updates handled so far

rl_vars == <<clock, requests, rl_pc>>

bot_vars == <<store, genre_cache, user_data, conv, inflight, last, updates>>

vars == <<clock, requests, rl_pc, store, genre_cache, user_data, conv, inflight,
          last, updates>>

\* ------------------------------------------------------------------------
\* Options: Python's None / a missing dict key is <<>>, a value v is <<v>>.
None == << >>
Some(v) == <<v>>
IsSome(o) == o # << >>
Get(o) == o[1]

\* ========================================================================
\* RateLimiter
\* ========================================================================

\* tmdb_rate_limiter = RateLimiter(max_requests=8, time_window=1.0)
MaxRequests == 8
\* time_window = 1.0 s, in clock ticks (one tick is half a second)
TimeWindow == 2

\* Bounds of the rate limiter's model: the last clock value and the number
\* of concurrent callers of acquire().
MaxTime == 4
NumCallers == 2

Callers == 1..NumCallers

\* [req_time for req_time in self.requests if now - req_time < self.time_window]
Prune(reqs, now) ==
    SelectSeq(reqs, LAMBDA t : now - t < TimeWindow)

\* wait_time = self.time_window - (now - self.requests[0])
WaitTime(reqs, now) == TimeWindow - (now - reqs[1])

\* acquire(), from its entry to its first suspension or its return: the
\* window is pruned; when it is full and wait_time > 0 the caller suspends
\* in asyncio.sleep(wait_time), otherwise the timestamp is appended at once.
AcquireEnter(c) ==
    /\ rl_pc[c] = None
    /\ LET pruned == Prune(requests, clock)
           full   == Len(pruned) >= MaxRequests
       IN  IF full /\ WaitTime(pruned, clock) > 0
           THEN /\ clock + WaitTime(pruned, clock) <= MaxTime
                /\ requests' = pruned
                /\ rl_pc' = [rl_pc EXCEPT ![c] = Some(clock + WaitTime(pruned, clock))]
           ELSE /\ requests' = Append(pruned, clock)
                /\ rl_pc' = rl_pc
    /\ UNCHANGED <<clock, bot_vars>>

\* (the return after the sleep as it would be if a window found full again
\* made it give up without recording)
AcquireWake_GivesUp(c) ==
    /\ rl_pc[c] # None
    /\ clock >= Get(rl_pc[c])
    /\ requests' = IF Len(Prune(requests, clock)) >= MaxRequests THEN requests
                   ELSE Append(requests, clock)
    /\ rl_pc' = [rl_pc EXCEPT ![c] = None]
    /\ UNCHANGED <<clock, bot_vars>>

\* acquire() after asyncio.sleep returns (not before the deadline, possibly
\* later): self.requests.append(time.time()), with no second look at the
\* window.
AcquireWake(c) ==
    /\ rl_pc[c] # None
    /\ clock >= Get(rl_pc[c])
    /\ requests' = Append(requests, clock)
    /\ rl_pc' = [rl_pc EXCEPT ![c] = None]
    /\ UNCHANGED <<clock, bot_vars>>

\* time passes
Tick ==
    /\ clock < MaxTime
    /\ clock' = clock + 1
    /\ UNCHANGED <<requests, rl_pc, bot_vars>>

\* ========================================================================
\* The bot: data
\* ========================================================================

\* The users who talk to the bot (user_id = str(from_user.id)).
Users == {"u1", "u2"}

\* --- Conversation states (src/bot.py:27-30) and ConversationHandler.END
ADD_TITLE == 0
ADD_CHOICE == 1
RECOMMEND_CHOOSE == 10
RECOMMEND_FILM_PICK == 11
RECOMMEND_GENRE_PICK == 12
RECOMMEND_MORE_FILM == 15
RECOMMEND_MORE_GENRE == 16
LIST_SHOW == 20
\* ConversationHandler.END; it also stands for "no conversation": the
\* framework forgets the conversation's key when a handler returns END.
END == -1

\* --- Bounds
\* The number of updates (commands, messages, taps, answers of a fetch,
\* restarts) in a behaviour.
MaxUpdates == 7
\* The longest list of films a user keeps (a further add is not issued).
MaxFilms == 2
\* The highest page cursor a user browses to with the "more" button.
MaxPage == 2
\* The largest index on a pick-list button that a user taps.
MaxPick == 1
\* the page cursor at most, where the pages of one film are browsed alone
MaxBrowse == 9

\* --- TMDB, the external service
\* The films TMDB knows: a candidate is {id, title, genre_ids}.
GenreIdsOf(id) == IF id = 1 THEN <<1, 3>> ELSE IF id = 2 THEN << >> ELSE <<1>>
Film(id) == [id |-> id, title |-> <<"title", id>>, genre_ids |-> GenreIdsOf(id)]
Films(ids) == [i \in 1..Len(ids) |-> Film(ids[i])]
Range(a, b) == [i \in 1..(b - a + 1) |-> a + i - 1]

\* The genre taxonomy TMDB serves (genre 3 is one it does not name).
Taxonomy == (1 :> "Action")
EmptyMap == << >>

\* What a search can answer: a failure (transport error or non-2xx status),
\* or a list of candidates: none, one, or two.
SearchOutcomes == {[ok |-> FALSE, results |-> << >>]} \cup
    {[ok |-> TRUE, results |-> Films(ids)] :
        ids \in {<< >>, <<1>>, <<2>>, <<2, 1>>}}

\* What a recommendation query can answer: a failure, or a page of films:
\* none, two, or a full upstream page of 20.
RecOutcomes == {[ok |-> FALSE, results |-> << >>]} \cup
    {[ok |-> TRUE, results |-> ids] :
        ids \in {<< >>, <<1, 2>>, Range(1, 20)}}

\* (the answer of a query nobody made)
NoSearch == [ok |-> FALSE, results |-> << >>]

\* What the genre fetch can answer: 200 with the taxonomy, 200 with an empty
\* list, a non-200 status, or an exception.
GenreOutcomes == {"ok", "empty", "status", "error"}

\* --- Callback payloads.  A payload is the sequence of the parts that
\* Python's data.split("_") gives: "delete_0" is <<"delete", "0">>.
\* str(n), tok.isdigit() and int(tok) for the numbers on the buttons
Num(n) == ToString(n)
Numbers == 0..(MaxPick + MaxPage + MaxFilms + MaxBrowse)
IsDigit(tok) == \E n \in Numbers : Num(n) = tok
IntOf(tok) == CHOOSE n \in Numbers : Num(n) = tok
\* data.startswith(prefix + "_")
StartsWith(data, prefix) ==
    Len(data) > Len(prefix) /\ SubSeq(data, 1, Len(prefix)) = prefix
\* data.isdigit(), and int(data) when it does not raise ValueError
DataIsDigit(data) == Len(data) = 1 /\ IsDigit(data[1])
DataInt(data) == IF DataIsDigit(data) THEN Some(IntOf(data[1])) ELSE None
\* int(data.split("_")[k]) when it does not raise
PartInt(data, k) ==
    IF Len(data) >= k /\ IsDigit(data[k]) THEN Some(IntOf(data[k])) ELSE None

\* Every payload the code ever puts on a button (the buttons of old
\* messages stay on the user's screen, also across restarts of the bot).
Payloads ==
    {<<Num(n)>> : n \in 0..MaxPick}
    \cup {<<"by", "film">>, <<"by", "genre">>, <<"more", "film">>,
          <<"more", "genre">>, <<"close", "recommendations">>,
          <<"show", "delete", "interface">>, <<"cancel", "delete">>,
          <<"show", "updated", "list">>}
    \cup {<<"film", "page", Num(n)>> : n \in 1..MaxPage}
    \cup {<<"genre", "page", Num(n)>> : n \in 1..MaxPage}
    \cup {<<"delete", Num(n)>> : n \in 0..MaxFilms}

\* --- The store (load_films / save_films, src/bot.py:62-70)
\* (json.load as it would be if it left out the members whose list is empty)
Parse_SkipsEmpty(text) ==
    [k \in {text[i].key : i \in {j \in 1..Len(text) : text[j].value # << >>}} |->
        text[CHOOSE i \in 1..Len(text) : text[i].key = k].value]
\* json.load: the mapping of the object's members (of two members with one
\* key the later counts)
Parse(text) ==
    [k \in {text[i].key : i \in 1..Len(text)} |->
        text[CHOOSE i \in 1..Len(text) :
                /\ text[i].key = k
                /\ \A j \in (i + 1)..Len(text) : text[j].key # k].value]
\* the keys of a dict, one after the other
RECURSIVE KeysOf(_)
KeysOf(S) ==
    IF S = {} THEN << >>
    ELSE LET k == CHOOSE x \in S : TRUE IN <<k>> \o KeysOf(S \ {k})
\* json.dump: one member for each key of the mapping
Dump(data) ==
    LET keys == KeysOf(DOMAIN data)
    IN  [i \in 1..Len(keys) |-> [key |-> keys[i], value |-> data[keys[i]]]]
\* load_films(): {} when the file is absent, else the mapping in it.
LoadFilms == IF store = None THEN EmptyMap ELSE Parse(Get(store))
\* films.get(user_id, [])
UserFilms(films, u) == IF u \in DOMAIN films THEN films[u] ELSE << >>
\* films[user_id] = user_films
SetUser(films, u, lst) ==
    [k \in DOMAIN films \cup {u} |-> IF k = u THEN lst ELSE films[k]]
\* save_films(data): the file holds the text of the mapping
SaveFilms(data) == Some(Dump(data))

\* --- The session dictionary context.user_data
UDKeys == {"add_results", "recommend_films", "recommend_film", "film_page",
           "recommend_genre_id", "genre_page", "list_films"}
EmptyUD == [k \in UDKeys |-> None]

\* ========================================================================
\* The bot: handlers.  A handler is an operator from the state it reads
\* (store, genre_cache, user_data[u]) and its inputs to what it does:
\*   ud       context.user_data of u when it suspends or returns
\*   store    the file when it suspends or returns
\*   cache    _genre_cache when it suspends or returns
\*   ret      <<state>> it returns, <<>> when it returns None
\*   text     the message it sends ("" when it sends none)
\*   buttons  the callback payloads of the inline keyboard it sends
\*   shown    the ids of the films it lists in the message
\*   raised   whether an exception leaves the handler
\*   susp     <<>>, or <<continuation>> when it is suspended in the fetch
\*            of get_genres
\* ========================================================================
Base(u) ==
    [ud |-> user_data[u], store |-> store, cache |-> genre_cache, ret |-> None,
     text |-> "", buttons |-> {}, shown |-> << >>, raised |-> FALSE,
     susp |-> None]

Reply(u, text, ret) == [Base(u) EXCEPT !.text = text, !.ret = ret]
ReplyKb(u, text, buttons, ret) ==
    [Base(u) EXCEPT !.text = text, !.buttons = buttons, !.ret = ret]
Raise(r) == [r EXCEPT !.raised = TRUE, !.ret = None]

\* A handler suspended in get_genres: what it needs to go on.
Cont(kind, film, films, data, shown) ==
    [kind |-> kind, film |-> film, films |-> films, data |-> data, shown |-> shown]
Suspend(r, cont) == [r EXCEPT !.susp = Some(cont)]

\* --- get_genres (src/bot.py:73-90)
\* "if _genre_cache:" is true for a mapping that is not empty.
CacheHit == genre_cache # None /\ DOMAIN Get(genre_cache) # {}
\* (the fetch as it would be if a failure were cached like an answer)
FetchGenres_CachesFailure(outcome, cache) ==
    CASE outcome = "ok" -> <<Taxonomy, Some(Taxonomy)>>
      [] OTHER -> <<EmptyMap, Some(EmptyMap)>>

\* What the fetch makes of each answer: <<returned mapping, cache after>>.
FetchGenres(outcome, cache) ==
    CASE outcome = "ok" -> <<Taxonomy, Some(Taxonomy)>>
      [] outcome = "empty" -> <<EmptyMap, Some(EmptyMap)>>
      [] OTHER -> <<EmptyMap, cache>>
\* genres.get(gid, '')
GenreName(genres, gid) == IF gid \in DOMAIN genres THEN genres[gid] ELSE ""

\* --- start, help_command (src/bot.py:93-113): a message, None returned
Start(u) == Reply(u, "welcome", None)
HelpCommand(u) == Reply(u, "help", None)

\* --- add_start (src/bot.py:116-118)
AddStart(u) == Reply(u, "enter the title", Some(ADD_TITLE))

\* --- add_save_film (src/bot.py:176-204)
\* (the check as it would be if it compared nothing)
HasFilm_Never(user_films, id) == FALSE

\* any(f['id'] == film['id'] for f in user_films)
HasFilm(user_films, id) == \E i \in 1..Len(user_films) : user_films[i].id = id

\* (the record as it would be if the ids the taxonomy lacks were skipped,
\* as the recommendation messages skip them)
FilmRecord_SkipsUnknown(film, genres) ==
    [id |-> film.id, title |-> film.title,
     genres |-> SelectSeq([i \in 1..Len(film.genre_ids) |->
                              GenreName(genres, film.genre_ids[i])],
                          LAMBDA name : name # "")]

\* {'id': film['id'], 'title': film['title'], 'genres': genre_names}
FilmRecord(film, genres) ==
    [id |-> film.id, title |-> film.title,
     genres |-> [i \in 1..Len(film.genre_ids) |-> GenreName(genres, film.genre_ids[i])]]

\* (the save as it would be if it loaded the file again after get_genres)
AddSaveFinish_Reloads(r, u, film, films, genres) ==
    [r EXCEPT !.store = SaveFilms(SetUser(LoadFilms, u,
                            Append(UserFilms(LoadFilms, u), FilmRecord(film, genres)))),
              !.text = "added", !.shown = <<film.id>>, !.ret = Some(END)]

\* after get_genres: append to the list loaded before it, write the file
AddSaveFinish(r, u, film, films, genres) ==
    [r EXCEPT !.store = SaveFilms(SetUser(films, u,
                            Append(UserFilms(films, u), FilmRecord(film, genres)))),
              !.text = "added", !.shown = <<film.id>>, !.ret = Some(END)]

\* from its entry to get_genres: load, look for a duplicate
AddSaveFilm(u, film) ==
    LET films == LoadFilms
    IN  IF HasFilm(UserFilms(films, u), film.id)
        THEN Reply(u, "already in your list", Some(END))
        ELSE IF CacheHit
        THEN AddSaveFinish(Base(u), u, film, films, Get(genre_cache))
        ELSE Suspend(Base(u), Cont("add_save_film", Some(film), films, << >>, << >>))

\* --- add_title (src/bot.py:120-156)
\* The pick-list: one button per result, for the first 5 (results[:5]).
PickButtons(n) == {<<Num(i)>> : i \in 0..((IF n < 5 THEN n ELSE 5) - 1)}

\* A failure of the search raises inside the try; Python then evaluates
\* "except httpx.RequestException", a name httpx does not have, and the
\* AttributeError of that lookup leaves the handler: neither except clause
\* runs.
\* With one result add_title hands its Update to add_save_film (line 139),
\* whose first statement reads update_or_query.from_user (line 178): an
\* Update has no such attribute (a CallbackQuery has), the AttributeError is
\* caught at line 201, nothing is loaded or saved.
SaveError(u) == Reply(u, "save error", Some(END))

AddTitle(u, search) ==
    IF ~search.ok THEN Raise(Base(u))
    ELSE IF Len(search.results) = 0
    THEN Reply(u, "film not found", Some(ADD_TITLE))
    ELSE IF Len(search.results) = 1
    THEN SaveError(u)
    ELSE [ReplyKb(u, "choose the film", PickButtons(Len(search.results)), Some(ADD_CHOICE))
            EXCEPT !.ud["add_results"] = Some(search.results)]

\* --- add_choice (src/bot.py:158-174)
AddChoice(u, data) ==
    LET ud == user_data[u]
        idx == DataInt(data)
    IN  IF ud["add_results"] = None
        THEN Reply(u, "no search data", Some(END))
        ELSE IF idx = None \/ Get(idx) >= Len(Get(ud["add_results"]))
        THEN Reply(u, "pick error", Some(END))
        ELSE AddSaveFilm(u, Get(ud["add_results"])[Get(idx) + 1])

\* --- add_cancel (src/bot.py:206-208)
AddCancel(u) == Reply(u, "adding cancelled", Some(END))

\* --- list_films (src/bot.py:449-468)
ListFilms(u) ==
    LET films == UserFilms(LoadFilms, u)
    IN  IF Len(films) = 0
        THEN Reply(u, "your list is empty", Some(END))
        ELSE [ReplyKb(u, "your films", {<<"show", "delete", "interface">>}, Some(LIST_SHOW))
                EXCEPT !.ud["list_films"] = Some(films),
                       !.shown = [i \in 1..Len(films) |-> films[i].id]]

\* --- list_delete_film (src/bot.py:487-584)
\* context.user_data.get('list_films', [])
Snapshot(ud) == IF ud["list_films"] = None THEN << >> ELSE Get(ud["list_films"])

\* films.pop(film_index), for 0 <= film_index < len(films)
PopAt(films, k) ==
    [i \in 1..(Len(films) - 1) |-> IF i <= k THEN films[i] ELSE films[i + 1]]

IdsOf(films) == [i \in 1..Len(films) |-> films[i].id]

\* (the branch as it would be if an index past the end took the last film)
DeleteFilm_Clamps(u, data) ==
    LET ud == user_data[u]
        films == Snapshot(ud)
        idx == PartInt(data, 2)
    IN  IF idx = None
        THEN Reply(u, "delete error", Some(END))
        ELSE IF Len(films) = 0
        THEN Reply(u, "film not found in list", Some(END))
        ELSE LET k == IF Get(idx) >= Len(films) THEN Len(films) - 1 ELSE Get(idx)
                 rest == PopAt(films, k)
                 ud2 == IF ud["list_films"] = None THEN ud
                        ELSE [ud EXCEPT !["list_films"] = Some(rest)]
                 saved == SaveFilms(SetUser(LoadFilms, u, rest))
             IN  IF Len(rest) > 0
                 THEN [ReplyKb(u, "deleted", {<<"show", "updated", "list">>}, Some(LIST_SHOW))
                         EXCEPT !.ud = ud2, !.store = saved, !.shown = <<films[k + 1].id>>]
                 ELSE [Reply(u, "deleted, list now empty", Some(END))
                         EXCEPT !.ud = ud2, !.store = saved, !.shown = <<films[k + 1].id>>]

\* the branch of "delete_<n>"
DeleteFilm(u, data) ==
    LET ud == user_data[u]
        films == Snapshot(ud)
        idx == PartInt(data, 2)
    IN  IF idx = None
        THEN Reply(u, "delete error", Some(END))           \* ValueError, caught
        ELSE IF Get(idx) >= Len(films)
        THEN Reply(u, "film not found in list", Some(END))
        ELSE LET rest == PopAt(films, Get(idx))
                 \* the pop changes the list that user_data holds, when it
                 \* holds one
                 ud2 == IF ud["list_films"] = None THEN ud
                        ELSE [ud EXCEPT !["list_films"] = Some(rest)]
                 saved == SaveFilms(SetUser(LoadFilms, u, rest))
             IN  IF Len(rest) > 0
                 THEN [ReplyKb(u, "deleted", {<<"show", "updated", "list">>}, Some(LIST_SHOW))
                         EXCEPT !.ud = ud2, !.store = saved,
                                !.shown = <<films[Get(idx) + 1].id>>]
                 ELSE [Reply(u, "deleted, list now empty", Some(END))
                         EXCEPT !.ud = ud2, !.store = saved,
                                !.shown = <<films[Get(idx) + 1].id>>]

ListDeleteFilm(u, data) ==
    LET films == Snapshot(user_data[u])
        deleteButtons == {<<"delete", Num(i - 1)>> : i \in 1..Len(films)}
                         \cup {<<"cancel", "delete">>}
    IN  CASE data = <<"show", "delete", "interface">> ->
               IF Len(films) = 0
               THEN Reply(u, "your list is empty", Some(END))
               ELSE [ReplyKb(u, "choose the film to delete", deleteButtons, Some(LIST_SHOW))
                       EXCEPT !.shown = IdsOf(films)]
          [] data = <<"cancel", "delete">> ->
               [ReplyKb(u, "your films", {<<"show", "delete", "interface">>}, Some(LIST_SHOW))
                  EXCEPT !.shown = IdsOf(films)]
          [] data = <<"show", "updated", "list">> ->
               IF Len(films) = 0
               THEN Reply(u, "your list is empty", Some(END))
               ELSE [ReplyKb(u, "updated list", {<<"show", "delete", "interface">>}, Some(LIST_SHOW))
                       EXCEPT !.shown = IdsOf(films)]
          [] StartsWith(data, <<"delete">>) -> DeleteFilm(u, data)
          \* no branch: the handler falls off its end and returns None
          [] OTHER -> Base(u)

\* --- recommend_start (src/bot.py:211-217)
RecommendStart(u) ==
    ReplyKb(u, "choose the kind of recommendation",
            {<<"by", "film">>, <<"by", "genre">>}, Some(RECOMMEND_CHOOSE))

\* --- recommend_choose (src/bot.py:219-241)
\* the genre pick-list: one button per genre of the mapping get_genres gave
GenreMenu(r, genres) ==
    [r EXCEPT !.text = "choose the genre",
              !.buttons = {<<Num(g)>> : g \in DOMAIN genres},
              !.ret = Some(RECOMMEND_GENRE_PICK)]

\* (recommend_choose as it would be without the check for an empty list)
RecommendChoose_NoEmptyCheck(u, data) ==
    CASE data = <<"by", "film">> ->
           LET films == UserFilms(LoadFilms, u)
           IN  [ReplyKb(u, "choose the film",
                        {<<Num(i - 1)>> : i \in 1..Len(films)},
                        Some(RECOMMEND_FILM_PICK))
                  EXCEPT !.ud["recommend_films"] = Some(films),
                         !.shown = IdsOf(films)]
      [] data = <<"by", "genre">> ->
           IF CacheHit THEN GenreMenu(Base(u), Get(genre_cache))
           ELSE Suspend(Base(u), Cont("recommend_choose", None, EmptyMap, data, << >>))
      [] OTHER -> Reply(u, "unknown choice", Some(END))

RecommendChoose(u, data) ==
    CASE data = <<"by", "film">> ->
           LET films == UserFilms(LoadFilms, u)
           IN  IF Len(films) = 0
               THEN Reply(u, "no films for recommendations", Some(END))
               ELSE [ReplyKb(u, "choose the film",
                             {<<Num(i - 1)>> : i \in 1..Len(films)},
                             Some(RECOMMEND_FILM_PICK))
                       EXCEPT !.ud["recommend_films"] = Some(films),
                              !.shown = IdsOf(films)]
      [] data = <<"by", "genre">> ->
           IF CacheHit THEN GenreMenu(Base(u), Get(genre_cache))
           ELSE Suspend(Base(u), Cont("recommend_choose", None, EmptyMap, data, << >>))
      [] OTHER -> Reply(u, "unknown choice", Some(END))

\* --- recommend_film_pick (src/bot.py:243-341)
\* items_per_page = 5
ItemsPerPage == 5
\* tmdb_page = (bot_page - 1) // 4 + 1
TmdbPage(bot_page) == (bot_page - 1) \div 4 + 1
\* (the offset as it would be if it were taken from the page, not from the
\* page before it)
ResultsOffset_FromPage(bot_page) == (bot_page % 4) * ItemsPerPage

\* tmdb_results_offset = ((bot_page - 1) % 4) * items_per_page
ResultsOffset(bot_page) == ((bot_page - 1) % 4) * ItemsPerPage
\* lst[a:b] for 0 <= a <= b
Slice(lst, a, b) ==
    LET hi == IF b < Len(lst) THEN b ELSE Len(lst)
    IN  IF a >= hi THEN << >> ELSE SubSeq(lst, a + 1, hi)
\* [f for f in results if f['id'] not in user_films]
NewFilms(results, saved) == SelectSeq(results, LAMBDA id : id \notin saved)
SavedIds(u) == LET films == UserFilms(LoadFilms, u)
               IN  {films[i].id : i \in 1..Len(films)}
\* (the page as it would be without the fall back on all the results)
PageFilms_NoFallback(results, saved, bot_page) ==
    LET start_idx == ResultsOffset(bot_page)
        end_idx == start_idx + ItemsPerPage
    IN  Slice(NewFilms(results, saved), start_idx, end_idx)

\* the films of page bot_page: the slice of the unseen ones, or of all the
\* results when that slice is empty
PageFilms(results, saved, bot_page) ==
    LET start_idx == ResultsOffset(bot_page)
        end_idx == start_idx + ItemsPerPage
        page_films == Slice(NewFilms(results, saved), start_idx, end_idx)
    IN  IF Len(page_films) = 0 THEN Slice(results, start_idx, end_idx)
        ELSE page_films

CloseOnly == {<<"close", "recommendations">>}
\* (the navigation as it would be with a back button on every page)
FilmNav_AlwaysBack(bot_page) ==
    {<<"film", "page", Num(bot_page - 1)>>, <<"more", "film">>,
     <<"close", "recommendations">>}
FilmNav(bot_page) ==
    (IF bot_page > 1 THEN {<<"film", "page", Num(bot_page - 1)>>} ELSE {})
    \cup {<<"more", "film">>, <<"close", "recommendations">>}

\* the message with the films of the page, after get_genres
FilmRender(r, bot_page, page_films) ==
    [r EXCEPT !.text = "film recommendations", !.shown = page_films,
              !.buttons = FilmNav(bot_page), !.ret = Some(RECOMMEND_MORE_FILM)]

\* the try block, with user_data as the branches before it left it
FilmPage(r, u, rec) ==
    LET bot_page == Get(r.ud["film_page"])
        page_films == PageFilms(rec.results, SavedIds(u), bot_page)
    IN  IF ~rec.ok
        THEN [r EXCEPT !.text = "recommendations error", !.buttons = CloseOnly,
                       !.ret = Some(RECOMMEND_MORE_FILM)]
        ELSE IF Len(page_films) = 0
        THEN [r EXCEPT !.text = "no more recommendations", !.buttons = CloseOnly,
                       !.ret = Some(RECOMMEND_MORE_FILM)]
        ELSE IF CacheHit THEN FilmRender(r, bot_page, page_films)
        ELSE Suspend(r, Cont("recommend_film_pick", None, EmptyMap, << >>, page_films))

\* (the cursor as it would be if 'more' did not read it from the session)
PageOr1_Forgets(ud, key) == 1
\* context.user_data.get(key, 1)
PageOr1(ud, key) == IF ud[key] = None THEN 1 ELSE Get(ud[key])

RecommendFilmPick(u, data, rec) ==
    LET ud == user_data[u]
        b == Base(u)
    IN  CASE data = <<"close", "recommendations">> ->
               Reply(u, "recommendations closed", Some(END))
          [] StartsWith(data, <<"add", "rec">>) ->
               Reply(u, "opening the film", Some(END))
          [] StartsWith(data, <<"film", "page">>) ->
               \* int(...) and user_data['recommend_film'] are outside any try
               IF PartInt(data, 3) = None THEN Raise(b)
               ELSE LET b2 == [b EXCEPT !.ud["film_page"] = PartInt(data, 3)]
                    IN  IF ud["recommend_film"] = None THEN Raise(b2)
                        ELSE FilmPage(b2, u, rec)
          [] data = <<"more", "film">> ->
               LET b2 == [b EXCEPT !.ud["film_page"] = Some(PageOr1(ud, "film_page") + 1)]
               IN  IF ud["recommend_film"] = None THEN Raise(b2)
                   ELSE FilmPage(b2, u, rec)
          [] OTHER ->
               \* try: int(data), then user_data['recommend_films'][idx];
               \* ValueError and IndexError are caught, KeyError is not
               IF DataInt(data) = None THEN Reply(u, "unknown choice", Some(END))
               ELSE IF ud["recommend_films"] = None THEN Raise(b)
               ELSE IF Get(DataInt(data)) >= Len(Get(ud["recommend_films"]))
               THEN Reply(u, "unknown choice", Some(END))
               ELSE FilmPage([b EXCEPT
                        !.ud["recommend_film"] =
                            Some(Get(ud["recommend_films"])[Get(DataInt(data)) + 1]),
                        !.ud["film_page"] = Some(1)], u, rec)

\* --- recommend_genre_pick (src/bot.py:343-437)
GenreNav(page) ==
    (IF page > 1 THEN {<<"genre", "page", Num(page - 1)>>} ELSE {})
    \cup {<<"more", "genre">>, <<"close", "recommendations">>}

\* the try block after get_genres: the query, the filter, the message
GenrePage(r, u, rec) ==
    LET page == Get(r.ud["genre_page"])
        unseen == NewFilms(rec.results, SavedIds(u))
        new_films == IF Len(unseen) = 0 THEN Slice(rec.results, 0, 5) ELSE unseen
    IN  IF ~rec.ok
        THEN [r EXCEPT !.text = "recommendations error", !.buttons = CloseOnly,
                       !.ret = Some(RECOMMEND_MORE_GENRE)]
        ELSE IF Len(new_films) = 0
        THEN [r EXCEPT !.text = "no more recommendations", !.buttons = CloseOnly,
                       !.ret = Some(RECOMMEND_MORE_GENRE)]
        ELSE [r EXCEPT !.text = "genre recommendations", !.shown = new_films,
                       !.buttons = GenreNav(page),
                       !.ret = Some(RECOMMEND_MORE_GENRE)]

\* the try block: get_genres comes first
GenreTry(r, u, rec) ==
    IF CacheHit THEN GenrePage(r, u, rec)
    ELSE Suspend(r, Cont("recommend_genre_pick", None, EmptyMap, << >>, << >>))

RecommendGenrePick(u, data, rec) ==
    LET ud == user_data[u]
        b == Base(u)
    IN  CASE data = <<"close", "recommendations">> ->
               Reply(u, "recommendations closed", Some(END))
          [] StartsWith(data, <<"add", "rec">>) ->
               Reply(u, "opening the film", Some(END))
          [] data = <<"more", "genre">> ->
               LET b2 == [b EXCEPT !.ud["genre_page"] = Some(PageOr1(ud, "genre_page") + 1)]
               IN  IF ud["recommend_genre_id"] = None THEN Raise(b2)
                   ELSE GenreTry(b2, u, rec)
          [] StartsWith(data, <<"genre", "page">>) ->
               IF PartInt(data, 3) = None THEN Raise(b)
               ELSE LET b2 == [b EXCEPT !.ud["genre_page"] = PartInt(data, 3)]
                    IN  IF ud["recommend_genre_id"] = None THEN Raise(b2)
                        ELSE GenreTry(b2, u, rec)
          [] OTHER ->
               IF DataInt(data) = None THEN Reply(u, "unknown choice", Some(END))
               ELSE GenreTry([b EXCEPT !.ud["recommend_genre_id"] = DataInt(data),
                                       !.ud["genre_page"] = Some(1)], u, rec)

\* --- recommend_cancel (src/bot.py:439-441)
RecommendCancel(u) == Reply(u, "recommendations cancelled", Some(END))

\* (the router as it would be if a number went to the film pick whatever
\* the session holds)
UniversalTarget_UngatedPick(u, data) ==
    LET ud == user_data[u]
    IN  IF StartsWith(data, <<"delete">>)
           \/ data \in {<<"show", "delete", "interface">>, <<"cancel", "delete">>,
                        <<"show", "updated", "list">>}
        THEN "list_delete_film"
        ELSE IF data \in {<<"by", "film">>, <<"by", "genre">>}
        THEN "recommend_choose"
        ELSE IF StartsWith(data, <<"film", "page">>) \/ data = <<"more", "film">>
                \/ data = <<"close", "recommendations">>
                \/ StartsWith(data, <<"add", "rec">>)
                \/ DataIsDigit(data)
        THEN "recommend_film_pick"
        ELSE IF StartsWith(data, <<"genre", "page">>) \/ data = <<"more", "genre">>
                \/ StartsWith(data, <<"add", "rec">>)
                \/ data = <<"close", "recommendations">>
                \/ (DataIsDigit(data) /\ ud["recommend_genre_id"] # None)
        THEN "recommend_genre_pick"
        ELSE IF DataIsDigit(data) /\ ud["add_results"] # None
        THEN "add_choice"
        ELSE "universal_callback_handler"

\* --- universal_callback_handler (src/bot.py:620-640): the handler it
\* hands the tap to, or itself when no rule matches
UniversalTarget(u, data) ==
    LET ud == user_data[u]
    IN  IF StartsWith(data, <<"delete">>)
           \/ data \in {<<"show", "delete", "interface">>, <<"cancel", "delete">>,
                        <<"show", "updated", "list">>}
        THEN "list_delete_film"
        ELSE IF data \in {<<"by", "film">>, <<"by", "genre">>}
        THEN "recommend_choose"
        ELSE IF StartsWith(data, <<"film", "page">>) \/ data = <<"more", "film">>
                \/ data = <<"close", "recommendations">>
                \/ StartsWith(data, <<"add", "rec">>)
                \/ (DataIsDigit(data) /\ ud["recommend_films"] # None)
        THEN "recommend_film_pick"
        ELSE IF StartsWith(data, <<"genre", "page">>) \/ data = <<"more", "genre">>
                \/ StartsWith(data, <<"add", "rec">>)
                \/ data = <<"close", "recommendations">>
                \/ (DataIsDigit(data) /\ ud["recommend_genre_id"] # None)
        THEN "recommend_genre_pick"
        ELSE IF DataIsDigit(data) /\ ud["add_results"] # None
        THEN "add_choice"
        ELSE "universal_callback_handler"

SessionExpired(u) == Reply(u, "session expired, start over", Some(END))

\* --- what a handler does with an update.  ev is the update: a command
\* (arg its name), a text message, or a button tap (arg its payload);
\* search and rec are the answers TMDB gives if the handler asks.
Run(h, u, ev, search, rec) ==
    CASE h = "start" -> Start(u)
      [] h = "help_command" -> HelpCommand(u)
      [] h = "add_start" -> AddStart(u)
      [] h = "add_title" -> AddTitle(u, search)
      [] h = "add_choice" -> AddChoice(u, ev.arg)
      [] h = "add_cancel" -> AddCancel(u)
      [] h = "list_films" -> ListFilms(u)
      [] h = "list_delete_film" -> ListDeleteFilm(u, ev.arg)
      [] h = "recommend_start" -> RecommendStart(u)
      [] h = "recommend_choose" -> RecommendChoose(u, ev.arg)
      [] h = "recommend_film_pick" -> RecommendFilmPick(u, ev.arg, rec)
      [] h = "recommend_genre_pick" -> RecommendGenrePick(u, ev.arg, rec)
      [] h = "recommend_cancel" -> RecommendCancel(u)
      [] OTHER -> SessionExpired(u)

\* a handler suspended in get_genres goes on when the fetch has answered
Resume(u, cont, genre, rec) ==
    LET f == FetchGenres(genre, genre_cache)
        b == [Base(u) EXCEPT !.cache = f[2]]
    IN  CASE cont.kind = "add_save_film" ->
               AddSaveFinish(b, u, Get(cont.film), cont.films, f[1])
          [] cont.kind = "recommend_choose" -> GenreMenu(b, f[1])
          [] cont.kind = "recommend_film_pick" ->
               FilmRender(b, Get(user_data[u]["film_page"]), cont.shown)
          [] OTHER -> GenrePage(b, u, rec)

\* ========================================================================
\* The bot: dispatch.  main() registers, in this order and in one group,
\* add_conv, list_conv, recommend_conv, the command handlers and the
\* catch-all callback handler (src/bot.py:651-664); an update goes to the
\* first of them that accepts it.
\* ========================================================================
Command(name) == [kind |-> "command", arg |-> <<name>>]
TextMessage == [kind |-> "text", arg |-> << >>]
ButtonTap(data) == [kind |-> "callback", arg |-> data]

Convs == {"add", "list", "rec"}

\* the "states" table of a conversation handler (src/bot.py:473-476,
\* 589-591, 604-610): the handler of state s that accepts the update
StateHandler(c, s, ev) ==
    CASE c = "add" /\ s = ADD_TITLE /\ ev.kind = "text" -> "add_title"
      [] c = "add" /\ s = ADD_CHOICE /\ ev.kind = "callback" -> "add_choice"
      [] c = "list" /\ s = LIST_SHOW /\ ev.kind = "callback" -> "list_delete_film"
      [] c = "rec" /\ s = RECOMMEND_CHOOSE /\ ev.kind = "callback" -> "recommend_choose"
      [] c = "rec" /\ s \in {RECOMMEND_FILM_PICK, RECOMMEND_MORE_FILM}
            /\ ev.kind = "callback" -> "recommend_film_pick"
      [] c = "rec" /\ s \in {RECOMMEND_GENRE_PICK, RECOMMEND_MORE_GENRE}
            /\ ev.kind = "callback" -> "recommend_genre_pick"
      [] OTHER -> ""

\* the "fallbacks" (src/bot.py:477-482, 592-597, 611-616)
Fallback(c, ev) ==
    CASE ev = Command("cancel") -> IF c = "rec" THEN "recommend_cancel" ELSE "add_cancel"
      [] ev = Command("start") -> "start"
      [] ev = Command("recommend") -> "recommend_start"
      [] ev = Command("list") -> "list_films"
      [] OTHER -> ""

\* the "entry_points" (src/bot.py:472, 588, 603)
EntryPoint(c, ev) ==
    CASE c = "add" /\ ev = Command("add") -> "add_start"
      [] c = "list" /\ ev = Command("list") -> "list_films"
      [] c = "rec" /\ ev = Command("recommend") -> "recommend_start"
      [] OTHER -> ""

\* ConversationHandler.check_update: without a conversation the entry
\* points, in a conversation the handlers of its state and then the
\* fallbacks ("" when the conversation handler does not accept the update)
ConvCheck(c, s, ev) ==
    IF s = END THEN EntryPoint(c, ev)
    ELSE IF StateHandler(c, s, ev) # "" THEN StateHandler(c, s, ev)
    ELSE Fallback(c, ev)

\* the command handlers registered after the conversations
PlainCommand(ev) ==
    CASE ev = Command("start") -> "start"
      [] ev = Command("help") -> "help_command"
      [] ev = Command("add") -> "add_start"
      [] ev = Command("list") -> "list_films"
      [] ev = Command("recommend") -> "recommend_start"
      [] OTHER -> ""

\* who handles the update: via is the conversation handler that accepted
\* it, "command" or "universal" for the handlers outside the conversations
\* (whose return value the framework drops), "none" when nobody does
Route(u, ev) ==
    LET a == ConvCheck("add", conv[u]["add"], ev)
        l == ConvCheck("list", conv[u]["list"], ev)
        r == ConvCheck("rec", conv[u]["rec"], ev)
    IN  IF a # "" THEN [via |-> "add", handler |-> a]
        ELSE IF l # "" THEN [via |-> "list", handler |-> l]
        ELSE IF r # "" THEN [via |-> "rec", handler |-> r]
        ELSE IF PlainCommand(ev) # "" THEN [via |-> "command", handler |-> PlainCommand(ev)]
        ELSE IF ev.kind = "callback"
        THEN [via |-> "universal", handler |-> UniversalTarget(u, ev.arg)]
        ELSE [via |-> "none", handler |-> ""]

\* the conversation states after a handler returned: a conversation handler
\* stores the state its handler returned, keeps its state when the handler
\* returned None or raised
ConvAfter(u, via, r) ==
    IF via \in Convs /\ ~r.raised /\ r.ret # None
    THEN [conv EXCEPT ![u][via] = Get(r.ret)]
    ELSE conv

\* what is seen of the handling of an update: the update (user, kind, arg),
\* what TMDB answered (search, rec), who handled it (via, handler), what the
\* handler sent (text, buttons, shown) and how it ended (ret, raised,
\* suspended); fetched tells the step of OnFetched from the step that began
\* the handler
Observation(u, ev, search, rec, via, h, r, fetched) ==
    [user |-> u, kind |-> ev.kind, arg |-> ev.arg, search |-> search, rec |-> rec,
     via |-> via, handler |-> h,
     text |-> r.text, buttons |-> r.buttons, shown |-> r.shown, ret |-> r.ret,
     raised |-> r.raised, suspended |-> r.susp # None, fetched |-> fetched]

\* the bounds: no list longer than MaxFilms, no page cursor above pages
WithinBounds(u, r, pages) ==
    /\ r.store # None =>
          \A i \in 1..Len(Get(r.store)) : Len(Get(r.store)[i].value) <= MaxFilms
    /\ r.susp # None =>
          Len(UserFilms(Get(r.susp).films, u)) < MaxFilms
    /\ \A key \in {"film_page", "genre_page"} :
          r.ud[key] # None => Get(r.ud[key]) <= pages

\* the state after handler h (reached through via) did r with update ev
Apply(u, ev, search, rec, via, h, r, fetched) ==
    /\ store' = r.store
    /\ genre_cache' = r.cache
    /\ user_data' = [user_data EXCEPT ![u] = r.ud]
    /\ inflight' = [inflight EXCEPT ![u] =
            IF r.susp = None THEN None
            ELSE Some([cont |-> Get(r.susp), ev |-> ev, search |-> search,
                       via |-> via, handler |-> h])]
    /\ conv' = IF r.susp = None THEN ConvAfter(u, via, r) ELSE conv
    /\ last' = Observation(u, ev, search, rec, via, h, r, fetched)
    /\ UNCHANGED rl_vars

\* an update of user u arrives and its handler runs to its end or to the
\* fetch of get_genres
HandleUpTo(u, ev, search, rec, pages) ==
    /\ inflight[u] = None
    /\ \E route \in {Route(u, ev)} :
       \E r \in {IF route.via = "none" THEN Base(u)
                  ELSE Run(route.handler, u, ev, search, rec)} :
        /\ WithinBounds(u, r, pages)
        /\ Apply(u, ev, search, rec, route.via, route.handler, r, "")

Handle(u, ev, search, rec) == HandleUpTo(u, ev, search, rec, MaxPage)

Commands == {"start", "help", "add", "list", "recommend", "cancel"}

OnCommand(u) ==
    \E name \in Commands : Handle(u, Command(name), NoSearch, NoSearch)

OnText(u) ==
    \E search \in SearchOutcomes : Handle(u, TextMessage, search, NoSearch)

\* (TMDB's answer is drawn only when the handler of the tap asks for one)
RecAnswers(u, ev) ==
    IF Route(u, ev).handler \in {"recommend_film_pick", "recommend_genre_pick"}
    THEN RecOutcomes ELSE {NoSearch}

OnTap(u) ==
    \E data \in Payloads : \E rec \in RecAnswers(u, ButtonTap(data)) :
        Handle(u, ButtonTap(data), NoSearch, rec)

\* the updates of the Add-Film and List/Delete conversations alone
MaxStoreUpdates == 9
StoreCommands == {"add", "list", "cancel"}
StorePayloads ==
    {d \in Payloads : DataIsDigit(d) \/ ("delete" \in {d[i] : i \in 1..Len(d)})}

OnStoreCommand(u) ==
    \E name \in StoreCommands : Handle(u, Command(name), NoSearch, NoSearch)

OnStoreTap(u) ==
    \E data \in StorePayloads : Handle(u, ButtonTap(data), NoSearch, NoSearch)

\* --- the Recommend conversation alone, of a user whose films were saved
\* before the process started
RecCommands == {"recommend", "cancel"}
RecPayloads ==
    {d \in Payloads : DataIsDigit(d) \/ (Len(d) = 2 /\ d[1] \in {"by", "more", "close"})}
    \cup {<<"film", "page", Num(n)>> : n \in 1..(MaxPage + 1)}
    \cup {<<"genre", "page", Num(n)>> : n \in 1..(MaxPage + 1)}

OnRecCommand(u) ==
    \E name \in RecCommands : Handle(u, Command(name), NoSearch, NoSearch)

OnRecTap(u) ==
    \E data \in RecPayloads : \E rec \in RecAnswers(u, ButtonTap(data)) :
        HandleUpTo(u, ButtonTap(data), NoSearch, rec, MaxBrowse)

\* --- the Add-Film conversation alone, with a search that can find more
\* candidates than the pick-list shows
TitleOutcomes == SearchOutcomes \cup {[ok |-> TRUE, results |-> Films(Range(1, 6))]}
TitlePayloads == {<<Num(i)>> : i \in 0..6}

OnTitleCommand(u) ==
    \E name \in {"add", "cancel"} : Handle(u, Command(name), NoSearch, NoSearch)

OnTitleText(u) ==
    \E search \in TitleOutcomes : Handle(u, TextMessage, search, NoSearch)

OnTitleTap(u) ==
    \E data \in TitlePayloads : Handle(u, ButtonTap(data), NoSearch, NoSearch)

\* --- one film's recommendations browsed alone: a user with saved films has
\* chosen the first of them and stands at some page; the taxonomy is cached
MaxBrowseTaps == 2
BrowseLists == {<<1>>, <<1, 2>>}
BrowseOutcomes == RecOutcomes \cup {[ok |-> TRUE, results |-> Range(21, 40)]}
BrowsePayloads ==
    {<<"more", "film">>, <<"0">>}
    \cup {<<"film", "page", Num(n)>> : n \in 1..MaxBrowse}

Browsing(ids, page) ==
    LET films == [i \in 1..Len(ids) |-> FilmRecord(Film(ids[i]), Taxonomy)]
    IN  /\ store = SaveFilms(SetUser(EmptyMap, "u1", films))
        /\ genre_cache = Some(Taxonomy)
        /\ user_data = [u \in Users |->
                IF u = "u1"
                THEN [EmptyUD EXCEPT !["recommend_films"] = Some(films),
                                     !["recommend_film"] = Some(films[1]),
                                     !["film_page"] = Some(page)]
                ELSE EmptyUD]
        /\ conv = [u \in Users |-> [c \in Convs |->
                IF u = "u1" /\ c = "rec" THEN RECOMMEND_MORE_FILM ELSE END]]
        /\ inflight = [u \in Users |-> None]

OnBrowseTap(u) ==
    \E data \in BrowsePayloads : \E rec \in BrowseOutcomes :
        HandleUpTo(u, ButtonTap(data), NoSearch, rec, MaxBrowse)

\* --- one genre's recommendations browsed alone: the same user has chosen
\* genre 1 and stands at some page
BrowseGenrePayloads ==
    {<<"more", "genre">>, <<"1">>}
    \cup {<<"genre", "page", Num(n)>> : n \in 1..MaxBrowse}

GenreBrowsing(ids, page) ==
    LET films == [i \in 1..Len(ids) |-> FilmRecord(Film(ids[i]), Taxonomy)]
    IN  /\ store = SaveFilms(SetUser(EmptyMap, "u1", films))
        /\ genre_cache = Some(Taxonomy)
        /\ user_data = [u \in Users |->
                IF u = "u1"
                THEN [EmptyUD EXCEPT !["recommend_genre_id"] = Some(1),
                                     !["genre_page"] = Some(page)]
                ELSE EmptyUD]
        /\ conv = [u \in Users |-> [c \in Convs |->
                IF u = "u1" /\ c = "rec" THEN RECOMMEND_MORE_GENRE ELSE END]]
        /\ inflight = [u \in Users |-> None]

OnGenreBrowseTap(u) ==
    \E data \in BrowseGenrePayloads : \E rec \in BrowseOutcomes :
        HandleUpTo(u, ButtonTap(data), NoSearch, rec, MaxBrowse)

\* the fetch of get_genres answers and the suspended handler goes on
OnFetched(u) ==
    /\ inflight[u] # None
    /\ \E genre \in GenreOutcomes :
       \E rec \in (IF Get(inflight[u]).cont.kind = "recommend_genre_pick"
                   THEN RecOutcomes ELSE {NoSearch}) :
       \E f \in {Get(inflight[u])} :
       \E r \in {Resume(u, f.cont, genre, rec)} :
         /\ WithinBounds(u, r, MaxPage)
         /\ Apply(u, f.ev, f.search, rec, f.via, f.handler, r, genre)

\* the process is restarted: the file stays, everything in memory is lost
InitMemory ==
    /\ genre_cache = None
    /\ user_data = [u \in Users |-> EmptyUD]
    /\ conv = [u \in Users |-> [c \in Convs |-> END]]
    /\ inflight = [u \in Users |-> None]

Started ==
    [user |-> "", kind |-> "start", arg |-> << >>, search |-> NoSearch,
     rec |-> NoSearch, via |-> "none", handler |-> "",
     text |-> "", buttons |-> {}, shown |-> << >>, ret |-> None,
     raised |-> FALSE, suspended |-> FALSE, fetched |-> ""]

Restart ==
    /\ genre_cache' = None
    /\ user_data' = [u \in Users |-> EmptyUD]
    /\ conv' = [u \in Users |-> [c \in Convs |-> END]]
    /\ inflight' = [u \in Users |-> None]
    /\ last' = Started
    /\ UNCHANGED <<store, rl_vars>>

\* --- the file alone: what save_films can have written, loaded and saved
\* again
FileLists ==
    {[i \in 1..Len(ids) |-> FilmRecord(Film(ids[i]), g)] :
        ids \in {<< >>, <<1>>, <<2>>, <<1, 2>>, <<2, 1>>}, g \in {Taxonomy, EmptyMap}}
FileMappings ==
    UNION {[who -> FileLists] : who \in SUBSET Users}

RoundTrip ==
    /\ store' = SaveFilms(LoadFilms)
    /\ last' = [Started EXCEPT !.kind = "roundtrip"]
    /\ UNCHANGED <<genre_cache, user_data, conv, inflight, rl_vars>>

\* every update counts towards the bound on a behaviour's length
CountedTo(n) ==
    /\ updates < n
    /\ updates' = updates + 1
Counted == CountedTo(MaxUpdates)

\* ========================================================================
\* Specifications
\* ========================================================================
InitRL ==
    /\ clock = 0
    /\ requests = << >>
    /\ rl_pc = [c \in Callers |-> None]

Init ==
    /\ InitRL
    /\ store = None
    /\ InitMemory
    /\ last = Started
    /\ updates = 0

InitPage ==
    /\ InitRL
    /\ \E ids \in BrowseLists : \E page \in 1..MaxBrowse : Browsing(ids, page)
    /\ last = Started
    /\ updates = 0

NextPage == OnBrowseTap("u1") /\ Counted

InitRec ==
    /\ InitRL
    /\ \E ids \in BrowseLists :
          store = SaveFilms(SetUser(EmptyMap, "u1",
                      [i \in 1..Len(ids) |-> FilmRecord(Film(ids[i]), Taxonomy)]))
    /\ InitMemory
    /\ last = Started
    /\ updates = 0

NextRec ==
    \/ OnRecCommand("u1") /\ Counted
    \/ OnRecTap("u1") /\ Counted
    \/ OnFetched("u1") /\ Counted

InitFile ==
    /\ InitRL
    /\ store \in {None} \cup {SaveFilms(m) : m \in FileMappings}
    /\ InitMemory
    /\ last = Started
    /\ updates = 0

NextFile == RoundTrip /\ Counted

InitBrowse ==
    /\ InitRL
    /\ \E ids \in BrowseLists : \E page \in 1..MaxBrowse :
          Browsing(ids, page) \/ GenreBrowsing(ids, page)
    /\ last = Started
    /\ updates = 0

\* (browsing is followed for MaxBrowseTaps taps)
NextBrowse ==
    \/ OnBrowseTap("u1") /\ updates < MaxBrowseTaps /\ Counted
    \/ OnGenreBrowseTap("u1") /\ updates < MaxBrowseTaps /\ Counted

NextRL ==
    \/ \E c \in Callers : AcquireEnter(c)
    \/ \E c \in Callers : AcquireWake(c)
    \/ Tick

\* one user, every update the bot accepts
Next ==
    \/ OnCommand("u1") /\ Counted
    \/ OnText("u1") /\ Counted
    \/ OnTap("u1") /\ Counted
    \/ OnFetched("u1") /\ Counted
    \/ Restart /\ Counted

\* every user, the updates that add, list and delete films (a film is saved
\* by /add, a title, a pick and the answer of the taxonomy fetch: the
\* behaviours are followed for MaxStoreUpdates updates)
NextStore ==
    \/ \E u \in Users : OnStoreCommand(u) /\ CountedTo(MaxStoreUpdates)
    \/ \E u \in Users : OnText(u) /\ CountedTo(MaxStoreUpdates)
    \/ \E u \in Users : OnStoreTap(u) /\ CountedTo(MaxStoreUpdates)
    \/ \E u \in Users : OnFetched(u) /\ CountedTo(MaxStoreUpdates)

\* one user, the updates of the Add-Film conversation
NextTitle ==
    \/ OnTitleCommand("u1") /\ Counted
    \/ OnTitleText("u1") /\ Counted
    \/ OnTitleTap("u1") /\ Counted
    \/ OnFetched("u1") /\ Counted

\* the rate limiter alone
SpecRL == Init /\ [][NextRL]_vars

\* the rate limiter where time passes and a sleep that is over returns
SpecRLFair ==
    /\ Init /\ [][NextRL]_vars
    /\ WF_vars(Tick)
    /\ \A c \in Callers : WF_vars(AcquireWake(c))

\* the bot and one user
Spec == Init /\ [][Next]_vars

\* the store and the users who write it
SpecStore == Init /\ [][NextStore]_vars

\* the file, loaded and saved
SpecFile == InitFile /\ [][NextFile]_vars

\* the Recommend conversation of a user who has films
SpecRec == InitRec /\ [][NextRec]_vars

\* the Add-Film conversation and its searches
SpecTitle == Init /\ [][NextTitle]_vars

\* the pages of the recommendations by film
SpecPage == InitPage /\ [][NextPage]_vars

\* the pages of the recommendations by film and by genre
SpecBrowse == InitBrowse /\ [][NextBrowse]_vars

\* ========================================================================
\* Claims
\* ========================================================================

\* The number of recorded timestamps in the window [t, t + TimeWindow).
InWindow(reqs, t) ==
    Cardinality({i \in 1..Len(reqs) : reqs[i] >= t /\ reqs[i] < t + TimeWindow})

\* C1: no sliding window of time_window seconds ever contains more than
\* max_requests recorded timestamps, whatever the interleaving of the
\* callers of acquire().
C1_RateNeverExceeded ==
    \A t \in 0..MaxTime : InWindow(requests, t) <= MaxRequests

\* ------------------------------------------------------------------------
\* What the claims speak of
\* ------------------------------------------------------------------------
\* the list of user u in the file
Persisted(u) == UserFilms(LoadFilms, u)

\* the step is the handling of an update by handler h from its beginning
Begins(h) == last'.handler = h /\ last'.fetched = ""
\* the step is the end of handler h after the fetch of get_genres
Resumes(h) == last'.handler = h /\ last'.fetched # ""

\* the handler of the step returned END; the conversation handler that
\* dispatched it, if one did, holds no state for the user any more
EndsConversation ==
    /\ last'.ret = Some(END)
    /\ ~last'.raised /\ ~last'.suspended
    /\ last'.via \in Convs => conv'[last'.user][last'.via] = END

\* the candidate that the update of the step hands to add_save_film:
\* the only result of a title search, or the result picked in the pick-list
Candidate ==
    LET ud == user_data[last'.user]
        idx == DataInt(last'.arg)
    IN  IF Begins("add_title") /\ last'.search.ok /\ Len(last'.search.results) = 1
        THEN Some(last'.search.results[1])
        ELSE IF Begins("add_choice") /\ ud["add_results"] # None /\ idx # None
                /\ Get(idx) < Len(Get(ud["add_results"]))
        THEN Some(Get(ud["add_results"])[Get(idx) + 1])
        ELSE None

\* the index of the delete-target tap that list_delete_film handles in the step
DeleteIndex ==
    IF Begins("list_delete_film") /\ Len(last'.arg) = 2 /\ last'.arg[1] = "delete"
    THEN PartInt(last'.arg, 2) ELSE None

\* lst without its k-th element (k from 1)
Without(lst, k) == SubSeq(lst, 1, k - 1) \o SubSeq(lst, k + 1, Len(lst))

\* C2: in every reachable state of the store, whatever adds, deletes and
\* lists the users did and however their handlers interleaved, no user's
\* persisted list holds two records with the same id.
C2_NoDuplicateIds ==
    \A u \in Users : \A i, j \in 1..Len(Persisted(u)) :
        Persisted(u)[i].id = Persisted(u)[j].id => i = j

\* a second add of a film was refused while the list held two films
C2_Witness ==
    /\ last.text = "already in your list"
    /\ Len(Persisted(last.user)) = 2

\* C3: adding a film whose id is already in the user's persisted list leaves
\* the whole store unchanged, replies 'already in your list' and ends the
\* Add-Film conversation.
C3_DuplicateAddIsNoOp ==
    [][(Candidate # None /\ HasFilm(Persisted(last'.user), Get(Candidate).id))
        => /\ store' = store
           /\ last'.text = "already in your list"
           /\ EndsConversation]_vars

\* a pick in the pick-list of a search was refused as a duplicate, the other
\* user having films too
C3_Witness ==
    /\ last.handler = "add_choice" /\ last.via = "add"
    /\ last.text = "already in your list"
    /\ conv[last.user]["add"] = END
    /\ \E u \in Users \ {last.user} : conv[u]["add"] # END

\* C4: a delete-target tap with an index valid for the list removes exactly
\* one record from the user's persisted list and keeps the others in their
\* order: the persisted list after the tap is the persisted list before the
\* tap without one record, also when the user added films after the list was
\* displayed.
C4_DeleteRemovesExactlyOne ==
    [][\A u \in Users :
        (last'.user = u /\ DeleteIndex # None
         /\ Get(DeleteIndex) < Len(Snapshot(user_data[u]))
         /\ Get(DeleteIndex) < Len(Persisted(u)))
        => /\ \E k \in 1..Len(Persisted(u)) :
                Persisted(u)' = Without(Persisted(u), k)
           /\ \A v \in Users \ {u} : Persisted(v)' = Persisted(v)]_vars

\* C5: a delete-target tap whose index is not below the length of the
\* session's list snapshot gets an error message, ends the conversation,
\* raises nothing and leaves the store and the snapshot as they were.
C5_OutOfRangeDelete ==
    [][(DeleteIndex # None
        /\ Get(DeleteIndex) >= Len(Snapshot(user_data[last'.user])))
        => /\ last'.text \in {"film not found in list", "delete error"}
           /\ EndsConversation
           /\ store' = store
           /\ user_data' = user_data]_vars

\* the List conversation refused an index past the end of a snapshot that
\* holds a film
C5_Witness ==
    /\ last.handler = "list_delete_film" /\ last.via = "list"
    /\ last.text = "film not found in list"
    /\ last.user \in Users /\ Len(Snapshot(user_data[last.user])) > 0
    /\ conv[last.user]["list"] = END

\* C6: every button tap that arrives when the user's session holds no
\* context (any button of an old message after a restart: 'more', page
\* navigation, delete, numeric pick) is answered 'session expired, start
\* over', and its handler raises no exception.
C6_StaleTapSessionExpired ==
    [][(last'.kind = "callback"
        /\ user_data[last'.user] = EmptyUD
        /\ \A c \in Convs : conv[last'.user][c] = END)
        => /\ last'.text = "session expired, start over"
           /\ ~last'.raised]_vars

\* the step makes the query for recommendations by film: a page tap with a
\* film chosen, or the pick of a film of the pending list
FilmQueried ==
    LET ud == user_data[last'.user]
        d == last'.arg
    IN  /\ Begins("recommend_film_pick")
        /\ \/ /\ d = <<"more", "film">> \/ (StartsWith(d, <<"film", "page">>)
                                             /\ PartInt(d, 3) # None)
              /\ ud["recommend_film"] # None
           \/ /\ DataInt(d) # None /\ ud["recommend_films"] # None
              /\ Get(DataInt(d)) < Len(Get(ud["recommend_films"]))

\* the step makes the query for recommendations by genre: after the
\* taxonomy, for a page tap with a genre chosen or for the pick of a genre
GenreQueried ==
    LET ud == user_data[last'.user]
        d == last'.arg
    IN  \/ Resumes("recommend_genre_pick")
        \/ /\ Begins("recommend_genre_pick") /\ CacheHit
           /\ \/ /\ d = <<"more", "genre">> \/ (StartsWith(d, <<"genre", "page">>)
                                                 /\ PartInt(d, 3) # None)
                 /\ ud["recommend_genre_id"] # None
              \/ DataInt(d) # None

\* the least n with p <= 4 * n
CeilQuarter(p) == CHOOSE n \in 0..p : 4 * n >= p /\ 4 * (n - 1) < p

\* the items of lst from offset off on, five at most
FiveFrom(lst, off) ==
    [i \in 1..(IF Len(lst) - off >= 5 THEN 5
               ELSE IF Len(lst) > off THEN Len(lst) - off ELSE 0) |-> lst[off + i]]

\* C7: in the by-film track, for every page p >= 1 the upstream page asked
\* for is ceil(p/4), the offset of the slice is ((p-1) mod 4)*5 and the page
\* shown is the 5 items from that offset (of the results the user has not
\* saved, or of all of them when that leaves nothing; fewer when the results
\* end before); at p = 1 with 20 results, none of them saved, items 0-4 are
\* shown and 'no more recommendations' is not.
C7_FilmPagination ==
    [][\A u \in Users : (last'.user = u /\ FilmQueried /\ last'.rec.ok) =>
        LET p == Get(user_data'[u]["film_page"])
            off == ((p - 1) % 4) * 5
            results == last'.rec.results
            saved == {Persisted(u)[i].id : i \in 1..Len(Persisted(u))}
            unseen == SelectSeq(results, LAMBDA id : id \notin saved)
            page == IF FiveFrom(unseen, off) # << >> THEN FiveFrom(unseen, off)
                    ELSE FiveFrom(results, off)
        IN  /\ p >= 1
            /\ TmdbPage(p) = CeilQuarter(p)
            /\ ResultsOffset(p) = off
            /\ last'.shown = page
            /\ last'.text = IF page = << >> THEN "no more recommendations"
                            ELSE "film recommendations"
            /\ Len(unseen) >= off + 5 => Len(last'.shown) = 5
            /\ (p = 1 /\ Len(results) = 20 /\ unseen = results) =>
                  /\ last'.shown = SubSeq(results, 1, 5)
                  /\ last'.text # "no more recommendations"]_vars

\* page 6 was shown: the second upstream page from offset 5
C7_Witness ==
    /\ last.handler = "recommend_film_pick" /\ last.text = "film recommendations"
    /\ user_data["u1"]["film_page"] = Some(6)
    /\ last.shown = <<26, 27, 28, 29, 30>>

\* the names that get_genres's mapping gives the genre ids of a film
NamesOf(film, mapping) ==
    [i \in 1..Len(film.genre_ids) |->
        IF film.genre_ids[i] \in DOMAIN mapping THEN mapping[film.genre_ids[i]]
        ELSE ""]

\* the file holds the mapping before, with the record of film at the end of
\* the list of u; the confirmation names the film; the conversation ends
SavedAtEnd(u, before, film, mapping) ==
    /\ store' # None
    /\ LoadFilms' = [k \in DOMAIN before \cup {u} |->
                        IF k = u
                        THEN UserFilms(before, u) \o
                               <<[id |-> film.id, title |-> film.title,
                                  genres |-> NamesOf(film, mapping)]>>
                        ELSE before[k]]
    /\ last'.text = "added" /\ last'.shown = <<film.id>>
    /\ EndsConversation

\* the pick of the step: a tap on entry i of the pick-list of a search that
\* found two candidates or more, candidate i not being in the list of u
NewPick(u) ==
    /\ last'.user = u /\ Begins("add_choice") /\ Candidate # None
    /\ Len(Get(user_data[u]["add_results"])) >= 2
    /\ ~HasFilm(Persisted(u), Get(Candidate).id)

\* C8: when a search found two candidates or more and the user taps entry i
\* of the pick-list, candidate i not being in the user's list, exactly one
\* record is appended at the end of the user's persisted list, with the id
\* and title of candidate i and the taxonomy names of its genre ids in
\* order; a confirmation naming the film is sent and the conversation ends.
\* (The handler may wait for the taxonomy in between: nothing is written
\* until it goes on.)
C8_PickAppendsRecord ==
    [][\A u \in Users :
        /\ NewPick(u) =>
              IF last'.suspended
              THEN /\ store' = store
                   /\ Get(inflight'[u]).cont.film = Candidate
                   /\ Get(inflight'[u]).cont.films = LoadFilms
              ELSE SavedAtEnd(u, LoadFilms, Get(Candidate), Get(genre_cache))
        /\ (last'.user = u /\ Resumes("add_choice")) =>
              SavedAtEnd(u, Get(inflight[u]).cont.films,
                         Get(Get(inflight[u]).cont.film),
                         IF last'.fetched = "ok" THEN Taxonomy ELSE EmptyMap)]_vars

\* a pick was saved behind a film saved before, with a genre the taxonomy
\* names and one it does not
C8_Witness ==
    /\ last.handler = "add_choice" /\ last.via = "add" /\ last.text = "added"
    /\ Len(Persisted(last.user)) = 2
    /\ Persisted(last.user)[2].genres = <<"Action", "">>

\* C9: when a user whose persisted list is empty chooses 'by film' in the
\* mode choice of Recommend, the bot replies 'no films for recommendations',
\* the Recommend conversation ends, no pick-list is shown and no pending
\* film list is stored in the session.
C9_ByFilmWithEmptyList ==
    [][(Begins("recommend_choose") /\ last'.arg = <<"by", "film">>
        /\ Len(Persisted(last'.user)) = 0)
        => /\ last'.text = "no films for recommendations"
           /\ EndsConversation
           /\ last'.buttons = {} /\ last'.shown = << >>
           /\ user_data' = user_data
           /\ store' = store]_vars

\* the mode choice of a Recommend conversation was answered so
C9_Witness ==
    /\ last.handler = "recommend_choose" /\ last.via = "rec"
    /\ last.text = "no films for recommendations"
    /\ conv[last.user]["rec"] = END
    /\ user_data[last.user]["recommend_films"] = None

\* C10: whenever a metadata call fails inside a conversation handler (title
\* search, recommendations by film, recommendations by genre) the handler
\* raises nothing, sends an error message and leaves the conversation in a
\* state to go on from: AwaitingTitle for the search, the browsing state
\* for the recommendations.
C10_MetadataFailureRecovered ==
    [][/\ (Begins("add_title") /\ ~last'.search.ok)
            => /\ ~last'.raised /\ last'.text # ""
               /\ last'.ret = Some(ADD_TITLE)
       /\ (FilmQueried /\ ~last'.rec.ok)
            => /\ ~last'.raised /\ last'.text = "recommendations error"
               /\ last'.ret = Some(RECOMMEND_MORE_FILM)
       /\ (GenreQueried /\ ~last'.rec.ok)
            => /\ ~last'.raised /\ last'.text = "recommendations error"
               /\ last'.ret = Some(RECOMMEND_MORE_GENRE)]_vars

\* the session keys of each conversation
SessionKeys(c) ==
    CASE c = "add" -> {"add_results"}
      [] c = "list" -> {"list_films"}
      [] OTHER -> {"recommend_films", "recommend_film", "film_page",
                   "recommend_genre_id", "genre_page"}

\* C11: when a conversation has ended or was superseded its session data is
\* destroyed: in every state where a conversation of a user is terminal and
\* none of the user's handlers is running, none of its session keys is
\* present.
C11_SessionDestroyedAtEnd ==
    \A u \in Users : \A c \in Convs :
        (conv[u][c] = END /\ inflight[u] = None)
            => \A k \in SessionKeys(c) : user_data[u][k] = None

\* C12: after the cancel command of a user is handled, every conversation
\* of that user is terminal, also when several were in progress.
C12_CancelEndsAll ==
    [][(last'.kind = "command" /\ last'.arg = <<"cancel">>)
        => \A c \in Convs : conv'[last'.user][c] = END]_vars

\* the handlers of the state machine that presents a button with payload d
Presenters(d) ==
    IF StartsWith(d, <<"delete">>)
       \/ d \in {<<"show", "delete", "interface">>, <<"cancel", "delete">>,
                 <<"show", "updated", "list">>}
    THEN {"list_delete_film"}
    ELSE IF d \in {<<"by", "film">>, <<"by", "genre">>} THEN {"recommend_choose"}
    ELSE IF StartsWith(d, <<"film", "page">>) \/ d = <<"more", "film">>
    THEN {"recommend_film_pick"}
    ELSE IF StartsWith(d, <<"genre", "page">>) \/ d = <<"more", "genre">>
    THEN {"recommend_genre_pick"}
    ELSE IF d = <<"close", "recommendations">>
    THEN {"recommend_film_pick", "recommend_genre_pick"}
    \* a number: a search pick, a film pick or a genre pick
    ELSE {"add_choice", "recommend_film_pick", "recommend_genre_pick"}

\* C13: every button tap is handled by the handler of the state machine
\* that presented the button (or gets the reply for an expired session),
\* whatever conversations are in progress and whatever earlier
\* conversations left in the session.
C13_TapHandledByPresenter ==
    [][last'.kind = "callback"
        => last'.handler \in Presenters(last'.arg)
                               \cup {"universal_callback_handler"}]_vars

\* C14: every call of acquire() returns in the end and has then recorded
\* exactly one new timestamp, whatever the number of callers and the
\* contents of the window; it has no other outcome.
C14_AcquireReturnsWithOneStamp ==
    /\ \A c \in Callers : (rl_pc[c] # None) ~> (rl_pc[c] = None)
    /\ [][/\ \* a call that returns at once
             (rl_pc' = rl_pc /\ requests' # requests)
                => requests' = Append(Prune(requests, clock), clock)
          /\ \* a call that goes to sleep records nothing yet
             (\E c \in Callers : rl_pc[c] = None /\ rl_pc'[c] # None)
                => requests' = Prune(requests, clock)
          /\ \* and records its timestamp when it returns
             (\E c \in Callers : rl_pc[c] # None /\ rl_pc'[c] = None)
                => requests' = Append(requests, clock)]_vars

\* a caller that slept has returned into a window that another caller had
\* filled meanwhile
C14_Witness ==
    /\ \A c \in Callers : rl_pc[c] = None
    /\ Len(requests) = MaxRequests + 1
    /\ requests[Len(requests)] = clock

\* C15: the load-modify-save cycle of the store has no mutual exclusion: a
\* handler suspended between its load and its save writes, when it goes on,
\* the lists of the other users as it loaded them, whatever those users
\* persisted or deleted meanwhile; so there is an interleaving of two
\* users' handlers after which a record one of them had persisted is gone.
C15_SaveWritesStaleLists ==
    [][\A u \in Users :
        (last'.user = u /\ last'.fetched # "" /\ last'.text = "added")
        => \A v \in Users \ {u} :
              Persisted(v)' = UserFilms(Get(inflight[u]).cont.films, v)]_vars

\* the add of one user went on and wrote the file; the other user, who had
\* added a film meanwhile and seen it in the list, has no film in the file
C15_Witness ==
    /\ last.fetched # "" /\ last.text = "added"
    /\ \E v \in Users \ {last.user} :
          /\ Len(Snapshot(user_data[v])) > 0
          /\ Persisted(v) = << >>

\* C16: when the fetch of the taxonomy fails (an exception or a status
\* other than 200), get_genres returns an empty mapping and raises nothing
\* to its caller, and the cache stays empty, so that the next call fetches
\* again.
C16_FailedFetchLeavesCacheEmpty ==
    [][\A u \in Users :
        (last'.user = u /\ last'.fetched \in {"status", "error"})
        => /\ ~last'.raised
           /\ genre_cache' = genre_cache
           /\ ~CacheHit'
           \* the caller went on with the empty mapping
           /\ Get(inflight[u]).cont.kind = "recommend_choose"
                 => /\ last'.text = "choose the genre" /\ last'.buttons = {}
           /\ Get(inflight[u]).cont.kind = "add_save_film"
                 => /\ last'.text = "added"
                    /\ Persisted(u)'[Len(Persisted(u)')].genres
                         = NamesOf(Get(Get(inflight[u]).cont.film), EmptyMap)]_vars

\* the genre menu was built from the empty mapping of a failed fetch
C16_Witness ==
    /\ last.fetched = "error" /\ last.handler = "recommend_choose"
    /\ last.buttons = {} /\ genre_cache = None

\* C17: save(load()) leaves the contents of the store unchanged: whatever
\* the store holds, also when it is absent and loads as the empty mapping,
\* loading and saving what was loaded gives a store that loads to the same
\* mapping, every user's records in the same order (and a file that was
\* there holds the same text).
C17_SaveLoadRoundTrip ==
    [][last'.kind = "roundtrip"
        => /\ store' # None
           /\ LoadFilms' = LoadFilms
           /\ \A u \in Users : Persisted(u)' = Persisted(u)
           /\ store # None => store' = store]_vars

\* a file with a user who has two films and a user whose list is empty was
\* loaded and saved
C17_Witness ==
    /\ last.kind = "roundtrip"
    /\ \E u, v \in Users :
          /\ Len(Persisted(u)) = 2 /\ Persisted(u)[1].id = 2
          /\ v \in DOMAIN LoadFilms /\ Persisted(v) = << >>

\* the rules of the Event Router in their order: does rule n accept payload
\* d with session ud, and whose is it
RouterRule(n, d, ud) ==
    LET numeric == Len(d) = 1 /\ d[1] \in {Num(k) : k \in Numbers}
        first(w) == Len(d) > 0 /\ d[1] = w
    IN  CASE n = 1 -> first("delete") \/ (first("show") /\ Len(d) = 3)
                      \/ d = <<"cancel", "delete">>
          [] n = 2 -> first("by")
          [] n = 3 -> first("film") \/ d = <<"more", "film">> \/ first("close")
                      \/ first("add") \/ (numeric /\ ud["recommend_films"] # None)
          [] n = 4 -> first("genre") \/ d = <<"more", "genre">>
                      \/ (numeric /\ ud["recommend_genre_id"] # None)
          [] OTHER -> numeric /\ ud["add_results"] # None
RouterHandlers ==
    <<"list_delete_film", "recommend_choose", "recommend_film_pick",
      "recommend_genre_pick", "add_choice">>

\* C18: a tap that reaches the Event Router goes to exactly one handler,
\* that of the first rule that accepts it, the rules being in this order:
\* delete payloads, mode choice, film recommendations (their payloads, or a
\* number when a pending film list is in the session), genre
\* recommendations (their payloads, or a number when a genre is in the
\* session), a number when search results are in the session; a payload
\* that no rule accepts gets the reply for an expired session.
C18_RouterFirstMatch ==
    [][\A u \in Users :
        (last'.user = u /\ last'.kind = "callback" /\ last'.via = "universal"
         /\ last'.fetched = "")
        => LET accepting == {n \in 1..5 : RouterRule(n, last'.arg, user_data[u])}
           IN  IF accepting = {}
               THEN /\ last'.handler = "universal_callback_handler"
                    /\ last'.text = "session expired, start over"
                    /\ ~last'.raised
               ELSE last'.handler =
                      RouterHandlers[CHOOSE n \in accepting :
                                        \A m \in accepting : n <= m]]_vars

\* the router gave a number to add_choice, the session holding search
\* results and nothing of a recommendation
C18_Witness ==
    /\ last.via = "universal" /\ last.handler = "add_choice"
    /\ DataIsDigit(last.arg)

\* C19: the genre taxonomy is populated at most once in the life of the
\* process and never written afterwards: once the cache holds a taxonomy
\* no answer of a later fetch replaces it, not even that of a handler which
\* called get_genres while the cache was still empty.
C19_CacheWrittenOnce ==
    [][CacheHit => genre_cache' = genre_cache]_vars

\* the upstream results of the step, those of them the user has not saved,
\* and whether a film the user has saved is among the films shown
Unsaved(u, results) ==
    LET saved == {Persisted(u)[i].id : i \in 1..Len(Persisted(u))}
    IN  SelectSeq(results, LAMBDA id : id \notin saved)
SavedShown(u) ==
    \E i \in 1..Len(last'.shown) : \E j \in 1..Len(Persisted(u)) :
        last'.shown[i] = Persisted(u)[j].id

\* C20 (as the claim states it): by film and by genre, whenever the
\* upstream result set fetched for the page asked for is not empty, a list
\* of films that is not empty is shown and 'no more recommendations' is not.
C20_ResultsAlwaysShown ==
    [][((FilmQueried \/ GenreQueried) /\ last'.rec.ok
        /\ last'.rec.results # << >>)
       => /\ last'.shown # << >>
          /\ last'.text # "no more recommendations"]_vars

\* C20 (amended): by genre, whenever the upstream result set is not empty a
\* list of films that is not empty is shown and 'no more recommendations'
\* is not; by film that holds exactly when the result set has an item at or
\* beyond the offset ((p-1) mod 4)*5 of page p, and 'no more
\* recommendations' is shown otherwise.  What is shown are the films the
\* user has not saved if any remain for the page, otherwise the raw page
\* (its five items from the offset; by genre the first five); a saved film
\* is shown only in the second case.
C20_UnsavedElseRawPage ==
    [][\A u \in Users :
        (last'.user = u /\ (FilmQueried \/ GenreQueried) /\ last'.rec.ok
         /\ last'.rec.results # << >>)
        => LET results == last'.rec.results
               unseen == Unsaved(u, results)
               off == IF FilmQueried
                      THEN ((Get(user_data'[u]["film_page"]) - 1) % 4) * 5
                      ELSE 0
               remain == IF FilmQueried THEN FiveFrom(unseen, off) ELSE unseen
           IN  /\ (last'.shown # << >>) <=> (Len(results) > off)
               /\ (last'.text = "no more recommendations")
                      <=> (Len(results) <= off)
               /\ remain # << >> => last'.shown = remain /\ ~SavedShown(u)
               /\ remain = << >> => last'.shown = FiveFrom(results, off)
               /\ SavedShown(u) => remain = << >>]_vars

\* by genre, both films of the results were saved ones and the raw page
\* was shown
C20_Witness ==
    /\ last.handler = "recommend_genre_pick"
    /\ last.text = "genre recommendations"
    /\ last.shown = <<1, 2>>
    /\ {Persisted("u1")[i].id : i \in 1..Len(Persisted("u1"))} = {1, 2}

\* the step asked for a page of recommendations and has no item to show:
\* by film the results end at or before the offset of the page, by genre
\* there are no results
ZeroItems ==
    /\ last'.rec.ok
    /\ \/ /\ FilmQueried
          /\ Len(last'.rec.results)
               <= ((Get(user_data'[last'.user]["film_page"]) - 1) % 4) * 5
       \/ GenreQueried /\ last'.rec.results = << >>
BrowsingStates == {RECOMMEND_MORE_FILM, RECOMMEND_MORE_GENRE}

\* C21: a rendering step of the Recommend conversation that has no item to
\* show sends 'no more recommendations' with Close as the only button and
\* leaves the conversation in the browsing state of its track (the same
\* state when it was in a browsing state already); the next update of the
\* user, if it is a tap on Close or the cancel command, brings the
\* conversation to its end.
C21_NoMoreKeepsBrowsing ==
    [][\A u \in Users :
        /\ (last'.user = u /\ last'.via = "rec" /\ ZeroItems) =>
              /\ last'.text = "no more recommendations"
              /\ last'.buttons = {<<"close", "recommendations">>}
              /\ ~last'.raised
              /\ conv'[u]["rec"] =
                    IF last'.handler = "recommend_film_pick"
                    THEN RECOMMEND_MORE_FILM ELSE RECOMMEND_MORE_GENRE
              /\ conv[u]["rec"] \in BrowsingStates
                    => conv'[u]["rec"] = conv[u]["rec"]
        /\ (/\ last.user = u /\ last.via = "rec"
            /\ last.text = "no more recommendations"
            /\ last'.user = u
            /\ \/ last'.kind = "callback"
                  /\ last'.arg = <<"close", "recommendations">>
               \/ last'.kind = "command" /\ last'.arg = <<"cancel">>)
           => conv'[u]["rec"] = END]_vars

\* C22: in AwaitingTitle a text whose search succeeds has these outcomes
\* by the number of results.  None: 'film not found', the conversation stays
\* in AwaitingTitle, the store is unchanged.  One: the save step with its
\* duplicate check ('already in your list' and nothing written, or the
\* record appended), and the conversation ends (the handler may wait for
\* the taxonomy in between: nothing is written until it goes on).  Two or
\* more: a pick-list with a button for each of the first 5 at most, the
\* results stored in the session, AwaitingDisambiguation, the store
\* unchanged.
C22_TitleSearchOutcomes ==
    [][\A u \in Users :
        /\ (last'.user = u /\ Begins("add_title") /\ last'.search.ok) =>
             LET results == last'.search.results
                 n == Len(results)
             IN  /\ conv[u]["add"] = ADD_TITLE /\ last'.via = "add"
                 /\ n = 0 => /\ last'.text = "film not found"
                             /\ conv'[u]["add"] = ADD_TITLE
                             /\ store' = store
                 /\ n = 1 =>
                      IF HasFilm(Persisted(u), results[1].id)
                      THEN /\ last'.text = "already in your list"
                           /\ store' = store
                           /\ EndsConversation
                      ELSE IF last'.suspended
                      THEN /\ store' = store
                           /\ Get(inflight'[u]).cont.film = Some(results[1])
                      ELSE SavedAtEnd(u, LoadFilms, results[1], Get(genre_cache))
                 /\ n >= 2 =>
                      /\ last'.text = "choose the film"
                      /\ last'.buttons =
                            {<<Num(i)>> : i \in {j \in 0..4 : j < n}}
                      /\ Cardinality(last'.buttons) <= 5
                      /\ user_data'[u]["add_results"] = Some(results)
                      /\ conv'[u]["add"] = ADD_CHOICE
                      /\ store' = store
        /\ (last'.user = u /\ Resumes("add_title")) =>
              SavedAtEnd(u, Get(inflight[u]).cont.films,
                         Get(Get(inflight[u]).cont.film),
                         IF last'.fetched = "ok" THEN Taxonomy ELSE EmptyMap)]_vars

\* the tap of the step is a pick, in the state that awaits one, and the pick
\* is invalid: a number past the end of the pending list (by genre: a
\* number that is no genre of the taxonomy), or a payload that is neither a
\* number nor a navigation button of the handler
NavigationPayload(d) ==
    \/ d \in {<<"close", "recommendations">>, <<"more", "film">>, <<"more", "genre">>}
    \/ StartsWith(d, <<"add", "rec">>)
    \/ StartsWith(d, <<"film", "page">>) \/ StartsWith(d, <<"genre", "page">>)
InvalidPick(u) ==
    LET d == last'.arg
        ud == user_data[u]
        pending(key) == IF ud[key] = None THEN << >> ELSE Get(ud[key])
    IN  /\ last'.user = u /\ last'.kind = "callback" /\ last'.fetched = ""
        /\ \/ /\ last'.via = "add" /\ last'.handler = "add_choice"
              /\ IF DataInt(d) = None THEN TRUE
                 ELSE Get(DataInt(d)) >= Len(pending("add_results"))
           \/ /\ last'.via = "rec" /\ conv[u]["rec"] = RECOMMEND_FILM_PICK
              /\ IF DataInt(d) = None THEN ~NavigationPayload(d)
                 ELSE Get(DataInt(d)) >= Len(pending("recommend_films"))
           \/ /\ last'.via = "rec" /\ conv[u]["rec"] = RECOMMEND_GENRE_PICK
              /\ IF DataInt(d) = None THEN ~NavigationPayload(d)
                 ELSE Get(DataInt(d)) \notin DOMAIN Taxonomy

\* C23: every invalid pick (in the pick-list of a search, of the user's
\* films, of the genres) is answered with an error message, ends the
\* conversation, raises nothing and leaves the store unchanged; and every
\* tap handled in AwaitingDisambiguation ends the Add-Film conversation
\* (when its handler has returned).
C23_InvalidPickEnds ==
    [][\A u \in Users :
        /\ InvalidPick(u) =>
              /\ last'.text \in {"pick error", "unknown choice"}
              /\ ~last'.raised
              /\ EndsConversation
              /\ store' = store
        /\ (last'.user = u /\ last'.via = "add" /\ last'.handler = "add_choice"
            /\ ~last'.suspended)
           => EndsConversation]_vars

\* the tap of the step is handled by the Recommend conversation in state s
RecTapIn(u, s) ==
    /\ last'.user = u /\ last'.kind = "callback" /\ last'.fetched = ""
    /\ last'.via = "rec" /\ conv[u]["rec"] = s

\* C24: by film, a valid pick of a film records the film, sets the page
\* cursor to 1 and moves to FilmBrowsing (when the handler has returned: it
\* may wait for the taxonomy); in FilmBrowsing a tap on 'more' raises the
\* cursor by exactly 1, a tap on the 'back' button of the message on display
\* sets it to one less than the page on display, the chosen film staying the
\* same in both; a tap on 'close' ends the conversation.
C24_FilmCursorMoves ==
    [][\A u \in Users :
        LET ud == user_data[u]
            d == last'.arg
        IN  /\ (RecTapIn(u, RECOMMEND_FILM_PICK) /\ DataInt(d) # None
                /\ Get(DataInt(d)) < Len(Get(ud["recommend_films"])))
               => /\ user_data'[u]["recommend_film"] =
                        Some(Get(ud["recommend_films"])[Get(DataInt(d)) + 1])
                  /\ user_data'[u]["film_page"] = Some(1)
                  /\ ~last'.raised
                  /\ ~last'.suspended => conv'[u]["rec"] = RECOMMEND_MORE_FILM
            /\ (last'.user = u /\ Resumes("recommend_film_pick") /\ last'.via = "rec")
               => /\ conv'[u]["rec"] = RECOMMEND_MORE_FILM
                  /\ user_data' = user_data
            /\ (RecTapIn(u, RECOMMEND_MORE_FILM) /\ d = <<"more", "film">>)
               => /\ user_data'[u]["film_page"] = Some(Get(ud["film_page"]) + 1)
                  /\ user_data'[u]["recommend_film"] = ud["recommend_film"]
                  /\ ud["recommend_film"] # None /\ ~last'.raised
                  /\ ~last'.suspended => conv'[u]["rec"] = RECOMMEND_MORE_FILM
            /\ (RecTapIn(u, RECOMMEND_MORE_FILM) /\ StartsWith(d, <<"film", "page">>)
                /\ last.user = u /\ d \in last.buttons)
               => /\ user_data'[u]["film_page"] = Some(Get(ud["film_page"]) - 1)
                  /\ Get(ud["film_page"]) > 1
                  /\ user_data'[u]["recommend_film"] = ud["recommend_film"]
                  /\ ud["recommend_film"] # None /\ ~last'.raised
                  /\ ~last'.suspended => conv'[u]["rec"] = RECOMMEND_MORE_FILM
            /\ (RecTapIn(u, RECOMMEND_MORE_FILM) /\ d = <<"close", "recommendations">>)
               => EndsConversation]_vars

\* the user went from page 3 back to page 2 of the second film of the list
C24_Witness ==
    /\ last.via = "rec" /\ last.arg = <<"film", "page", "2">>
    /\ last.text = "film recommendations"
    /\ user_data["u1"]["film_page"] = Some(2)
    /\ Len(Persisted("u1")) = 2
    /\ user_data["u1"]["recommend_film"] = Some(Persisted("u1")[2])
    /\ conv["u1"]["rec"] = RECOMMEND_MORE_FILM

\* C25: whenever a user sends the add command, whatever conversations of
\* the user were in progress, the bot asks for a title and the Add-Film
\* conversation is in AwaitingTitle; a text message that the user sends
\* next is handled as a title search.
C25_AddAlwaysAwaitsTitle ==
    [][\A u \in Users :
        /\ (last'.user = u /\ last'.kind = "command" /\ last'.arg = <<"add">>)
           => /\ last'.text = "enter the title"
              /\ conv'[u]["add"] = ADD_TITLE
        /\ (/\ last.user = u /\ last.kind = "command" /\ last.arg = <<"add">>
            /\ last'.user = u /\ last'.kind = "text")
           => last'.handler = "add_title"]_vars

\* the page numbers on the back buttons of track t in the message on display
BackTargets(t) ==
    {n \in Numbers : <<t, "page", Num(n)>> \in last.buttons}

\* C26: whatever picks and taps on 'more', 'back' and 'close' the user
\* made on buttons the bot rendered, the page cursors of both tracks in
\* the session are integers from 1 on, and a message shows a back button
\* only when its page is greater than 1 (the button then leads to the page
\* before it, so that no rendered button carries a page below 1).
C26_CursorsFromOne ==
    /\ \A u \in Users : \A key \in {"film_page", "genre_page"} :
          user_data[u][key] # None =>
              Get(user_data[u][key]) \in Nat /\ Get(user_data[u][key]) >= 1
    /\ \A t \in {"film", "genre"} :
          BackTargets(t) # {} =>
              LET page == Get(user_data[last.user]
                                [IF t = "film" THEN "film_page" ELSE "genre_page"])
              IN  /\ page > 1
                  /\ BackTargets(t) = {page - 1}
                  /\ last.handler = (IF t = "film" THEN "recommend_film_pick"
                                     ELSE "recommend_genre_pick")
    /\ \A d \in last.buttons :
          Len(d) = 3 /\ d[2] = "page" => \E n \in Numbers : n >= 1 /\ d[3] = Num(n)

\* page 2 of a genre is on display, with a back button to page 1
C26_Witness ==
    /\ last.handler = "recommend_genre_pick"
    /\ <<"genre", "page", "1">> \in last.buttons
    /\ user_data["u1"]["genre_page"] = Some(2)
    /\ user_data["u1"]["film_page"] # None

=============================================================================
